---- MODULE Spec2Model ----
(***************************************************************************)
(* A model of tauri's webview runner (src/tauri/src/app/runner.rs):        *)
(* startup (run, setup_content, setup_port, setup_server_url,              *)
(* build_webview, spawn_server, spawn_updater) and the invoke handler      *)
(* installed on the window (splashscreen flag + command fallback chain).   *)
(*                                                                         *)
(* Text is modelled as a sequence of one-character strings, so that        *)
(* replace / contains / starts_with / format! are computed as the code     *)
(* computes them.                                                          *)
(***************************************************************************)
EXTENDS Integers, Sequences, FiniteSets, TLC

\* ------------------------------------------------------------------ bounds
\* longest inbound message text (other than the two reserved payloads)
MaxLen == 1
\* number of inbound messages delivered to the window in one session
MaxMsgs == 3

\* ------------------------------------------------------------ text helpers
RECURSIVE Concat(_)
Concat(parts) == IF parts = <<>> THEN <<>> ELSE Head(parts) \o Concat(Tail(parts))

\* str::starts_with
StartsWith(s, p) == Len(s) >= Len(p) /\ SubSeq(s, 1, Len(p)) = p

\* str::contains
Contains(s, p) ==
  \E i \in 1..(Len(s) - Len(p) + 1) : SubSeq(s, i, i + Len(p) - 1) = p

\* str::replace for a one-character pattern
RECURSIVE Replace(_, _, _)
Replace(s, c, to) ==
  IF s = <<>> THEN <<>>
  ELSE (IF Head(s) = c THEN to ELSE <<Head(s)>>) \o Replace(Tail(s), c, to)

\* all texts over an alphabet, up to a length
RECURSIVE TextsUpTo(_, _)
TextsUpTo(alphabet, n) ==
  IF n = 0 THEN {<<>>}
  ELSE LET shorter == TextsUpTo(alphabet, n - 1)
       IN shorter \cup {<<c>> \o t : c \in alphabet, t \in {u \in shorter : Len(u) = n - 1}}

Quote == "'"
EscapedQuote == <<"\\", "'">>

\* ------------------------------------------------------- literals of the code
InitializedMsg ==
  <<"{", "\"", "c", "m", "d", "\"", ":", "\"", "_", "_", "i", "n", "i", "t", "i",
    "a", "l", "i", "z", "e", "d", "\"", "}">>

CloseSplashscreenMsg ==
  <<"{", "\"", "c", "m", "d", "\"", ":", "\"", "c", "l", "o", "s", "e", "S", "p",
    "l", "a", "s", "h", "s", "c", "r", "e", "e", "n", "\"", "}">>

UnknownVariant ==
  <<"u", "n", "k", "n", "o", "w", "n", " ", "v", "a", "r", "i", "a", "n", "t">>

ConsoleErrorPrefix ==
  <<"c", "o", "n", "s", "o", "l", "e", ".", "e", "r", "r", "o", "r", "(", "'",
    "f", "a", "i", "l", "e", "d", " ", "t", "o", " ", "m", "a", "t", "c", "h", " ",
    "a", " ", "c", "o", "m", "m", "a", "n", "d", " ", "f", "o", "r", " ">>

ConsoleErrorSep == <<",", " ">>

ConsoleErrorSuffix == <<"'", ")">>

LocationHrefPrefix ==
  <<"w", "i", "n", "d", "o", "w", ".", "l", "o", "c", "a", "t", "i", "o", "n", ".",
    "h", "r", "e", "f", " ", "=", " ", "\"">>

LocationHrefSuffix == <<"\"">>

Http == <<"h", "t", "t", "p">>

HttpScheme == <<"h", "t", "t", "p", ":", "/", "/">>

HttpsScheme == <<"h", "t", "t", "p", "s", ":", "/", "/">>

\* ------------------------------------------------------------ data model
\* web_view::Content<String>
Url(t) == [kind |-> "Url", text |-> t]
Html(t) == [kind |-> "Html", text |-> t]
NoContent == [kind |-> "None", text |-> <<>>]

\* Option<String>
Some(t) == [some |-> TRUE, msg |-> t]
None == [some |-> FALSE, msg |-> <<>>]

\* ------------------------------------------------- u32 and its decimal text
\* A u32 is kept as two 16-bit halves (value = hi * 65536 + lo), so that the
\* largest 32-bit values are representable.
Half == 256 * 256
U32(hi, lo) == [hi |-> hi, lo |-> lo]
U32Of(n) == [hi |-> n \div Half, lo |-> n % Half]
\* long division by ten
U32Div10(n) ==
  LET rest == (n.hi % 10) * Half + n.lo
  IN [hi |-> n.hi \div 10, lo |-> rest \div 10]
U32Mod10(n) == ((n.hi % 10) * Half + n.lo) % 10

Digit(d) == CASE d = 0 -> "0" [] d = 1 -> "1" [] d = 2 -> "2" [] d = 3 -> "3"
              [] d = 4 -> "4" [] d = 5 -> "5" [] d = 6 -> "6" [] d = 7 -> "7"
              [] d = 8 -> "8" [] d = 9 -> "9"

\* u32::to_string
RECURSIVE to_string(_)
to_string(n) ==
  IF n.hi = 0 /\ n.lo < 10 THEN <<Digit(n.lo)>>
  ELSE to_string(U32Div10(n)) \o <<Digit(U32Mod10(n))>>

\* ------------------------------------------------------- setup_server_url
\* format!("{}:{}", host, port), "http://" prepended unless url.starts_with("http")
setup_server_url(host, port) ==
  LET url == Concat(<<host, <<":">>, port>>)
  IN IF ~StartsWith(url, Http) THEN HttpScheme \o url ELSE url

\* ---------------------------------------------- invoke handler, pure parts
\* lines 213-218: which surface run_setup is told about
setup_source(has_splash, initialized) ==
  IF has_splash /\ ~initialized THEN "splashscreen" ELSE "window-1"

\* mutant: the flag is never set
mark_initialized_never(has_splash, initialized) == initialized

\* line 214: the flag after a {"cmd":"__initialized"} message
mark_initialized(has_splash, initialized) ==
  IF has_splash /\ ~initialized THEN TRUE ELSE initialized

\* lines 221-224
content_href(content) == content.text

\* line 225
navigation_script(content) ==
  Concat(<<LocationHrefPrefix, content_href(content), LocationHrefSuffix>>)

\* mutant: every core error falls through to the application handler
consults_application_on_any_error(tauri_handle_error_str) == TRUE

\* line 230: the application handler is consulted on this core error text
consults_application(tauri_handle_error_str) ==
  Contains(tauri_handle_error_str, UnknownVariant)

\* mutant: the core error is surfaced when the application handler errors
application_outcome_keeps_core_error(handled_by_app, tauri_handle_error_str) ==
  IF ~handled_by_app.err /\ handled_by_app.handled THEN None
  ELSE Some(tauri_handle_error_str)

\* mutant: the Ok(true) of the application handler is not looked at
application_outcome_ignores_handled(handled_by_app, tauri_handle_error_str) ==
  IF handled_by_app.err THEN Some(Replace(handled_by_app.msg, Quote, EscapedQuote))
  ELSE Some(tauri_handle_error_str)

\* lines 232-241: the error surfaced after the application handler ran
application_outcome(handled_by_app, tauri_handle_error_str) ==
  IF handled_by_app.err THEN Some(Replace(handled_by_app.msg, Quote, EscapedQuote))
  ELSE IF handled_by_app.handled THEN None
  ELSE Some(tauri_handle_error_str)

\* mutant: a core error that is not "unknown variant" is dropped
handler_error_swallows_core_failure(tauri_handle_error_str, handled_by_app) ==
  IF Contains(tauri_handle_error_str, UnknownVariant)
  THEN IF handled_by_app.err THEN Some(Replace(handled_by_app.msg, Quote, EscapedQuote))
       ELSE IF handled_by_app.handled THEN None
       ELSE Some(tauri_handle_error_str)
  ELSE None

\* lines 229-244: handler_error for a core error
handler_error(tauri_handle_error_str, handled_by_app) ==
  IF consults_application(tauri_handle_error_str)
  THEN application_outcome(handled_by_app, tauri_handle_error_str)
  ELSE Some(tauri_handle_error_str)

\* lines 277-283
get_api_error_message(arg, handler_error_message) ==
  Concat(<<ConsoleErrorPrefix, Replace(arg, Quote, EscapedQuote), ConsoleErrorSep,
           handler_error_message, ConsoleErrorSuffix>>)

\* the `?` on webview.eval (lines 225, 247) and the final Ok(()) (line 252)
callback_result(evaluated, eval_ok) ==
  IF evaluated /\ ~eval_ok THEN "Err" ELSE "Ok"

\* ------------------------------------------------------------------ paths
\* std::path::Path over text: Path::new and Path::join (an absolute component
\* replaces the path it is joined to)
Slash == "/"
IsAbsolute(t) == StartsWith(t, <<Slash>>)
PathJoin(base, component) ==
  IF IsAbsolute(component) THEN component
  ELSE IF base = <<>> \/ base[Len(base)] = Slash THEN base \o component
  ELSE Concat(<<base, <<Slash>>, component>>)

IndexTauriHtml ==
  <<"i", "n", "d", "e", "x", ".", "t", "a", "u", "r", "i", ".", "h", "t", "m", "l">>
TauriJsComponent == <<"/", "t", "a", "u", "r", "i", ".", "j", "s">>
DefaultTauriDir == <<".", ".", "/", "d", "i", "s", "t">>

\* ------------------------------------------------- configurations explored
Modes == {"dev", "embedded_server", "no_server"}

DevUrlPath == <<"h", "t", "t", "p", ":", "/", "/", "d", "e", "v">>
DevDirPath == <<"d", "e", "v">>
DevPaths == {DevUrlPath, DevDirPath}

\* contents of files and documents
DevDocument == <<"<", "d", ">">>
BundledDocument == <<"<", "b", ">">>
SplashDocument == <<"<", "s", ">">>
BootstrapScript == <<"j", "s">>

Hosts == {<<"l", "o", "c", "a", "l", "h", "o", "s", "t">>,
          <<"h", "t", "t", "p", "s", ":", "/", "/", "l", "o", "c", "a", "l", "h", "o", "s", "t">>}

\* tauri_api::config::Port
RandomPort == [random |-> TRUE, value |-> 0]
ValuePort(p) == [random |-> FALSE, value |-> p]
FixedPorts == {80}
RandomRange == {8000, 8001}
PortPolicies == {RandomPort} \cup {ValuePort(p) : p \in FixedPorts}
PortUniverse == FixedPorts \cup RandomRange

\* TAURI_DIR: unset, or set to a directory
TauriDirUnset == [set |-> FALSE, value |-> <<>>]
TauriDirs == {TauriDirUnset, [set |-> TRUE, value |-> <<"/", "a", "p", "p">>]}

\* envmnt::get_or("TAURI_DIR", "../dist")
get_or(env_var, default) == IF env_var.set THEN env_var.value ELSE default

\* --------------------------------------------------------- port allocator
\* crate::api::tcp::port_is_available
port_is_available(port, bound) == port \notin bound

\* crate::api::tcp::get_available_port: the possible results
get_available_port(bound) ==
  IF RandomRange \subseteq bound THEN {[some |-> FALSE, port |-> 0]}
  ELSE {[some |-> TRUE, port |-> p] : p \in RandomRange \ bound}

\* mutant: a fixed port that is bound is replaced by a probed one
setup_port_reassigns(policy, bound, probe) ==
  IF policy.random \/ ~port_is_available(policy.value, bound)
  THEN IF probe.some THEN <<to_string(U32Of(probe.port)), TRUE>>
       ELSE <<<<"0">>, FALSE>>
  ELSE <<to_string(U32Of(policy.value)), TRUE>>

\* lines 127-139, for one result of the random probe
setup_port(policy, bound, probe) ==
  IF policy.random
  THEN IF probe.some THEN <<to_string(U32Of(probe.port)), TRUE>>
       ELSE <<<<"0">>, FALSE>>
  ELSE <<to_string(U32Of(policy.value)), port_is_available(policy.value, bound)>>

\* ------------------------------------------------------------ setup_content
ResOk(c) == [res |-> "Ok", content |-> c]
ResErr == [res |-> "Err", content |-> NoContent]
ResPanic == [res |-> "panic", content |-> NoContent]

\* mutant: the document built into the binary is used instead of the file
setup_content_dev_reads_bundled(cfg, file) ==
  IF ~cfg.ok THEN ResErr
  ELSE IF StartsWith(cfg.dev_path, Http) THEN ResOk(Url(cfg.dev_path))
  ELSE IF ~file.exists THEN ResPanic
  ELSE IF ~file.readable THEN ResErr
  ELSE ResOk(Html(BundledDocument))

\* lines 64-102 (cfg dev); file is the state of <dev_path>/index.tauri.html
setup_content_dev(cfg, file) ==
  IF ~cfg.ok THEN ResErr
  ELSE IF StartsWith(cfg.dev_path, Http) THEN ResOk(Url(cfg.dev_path))
  ELSE IF ~file.exists THEN ResPanic
  ELSE IF ~file.readable THEN ResErr
  ELSE ResOk(Html(file.contents))

\* lines 106-116 (cfg embedded_server)
setup_content_embedded(cfg, bound, probe) ==
  IF ~cfg.ok THEN ResErr
  ELSE LET pv == setup_port(cfg.port, bound, probe)
       IN IF pv[2] THEN ResOk(Url(setup_server_url(cfg.host, pv[1])))
          ELSE ResPanic

\* lines 120-123 (cfg no_server)
setup_content_no_server == ResOk(Html(BundledDocument))

\* ------------------------------------------------------------ run, line by line
\* line 20: `?` on setup_content (a panic unwinds out of run)
after_setup_content(res) ==
  IF res = "Ok" THEN "build_webview" ELSE IF res = "panic" THEN "panicked" ELSE "failed"

\* mutant: the threads are not started before the event loop
after_build_ok_skips_threads(m, updater) == "webview_run"

\* lines 48-57: the statements compiled in after build_webview
after_build_ok(m, updater) ==
  IF m = "embedded_server" THEN "spawn_server"
  ELSE IF updater THEN "spawn_updater"
  ELSE "webview_run"

\* mutant: the result of build_webview is not checked
after_build_webview_unchecked(res, m, updater) == after_build_ok(m, updater)

\* line 46: `?` on build_webview
after_build_webview(res, m, updater) ==
  IF res = "Ok" THEN after_build_ok(m, updater) ELSE "failed"

\* line 50 to line 54
after_spawn_server(updater) == IF updater THEN "spawn_updater" ELSE "webview_run"

\* lines 24-30
server_url_of(content) == IF content.kind = "Url" THEN content.text ELSE <<>>

\* mutant: the window is always built with the main content
initial_content_always_main(content, splashscreen_content) == content

\* lines 254-258: the content the window is built with
initial_content(content, splashscreen_content) ==
  IF splashscreen_content.kind # "None" THEN splashscreen_content ELSE content

\* lines 264-266: the path the bootstrap script is read from
bootstrap_script_path(env_var) ==
  PathJoin(get_or(env_var, DefaultTauriDir), TauriJsComponent)

\* ------------------------------------------- handlers outside the runner
\* inbound message texts: the two reserved payloads and short other texts
ArgAlphabet == {"a", "'"}
Args == {InitializedMsg, CloseSplashscreenMsg} \cup TextsUpTo(ArgAlphabet, MaxLen)

\* variable part of an error text
ErrBodies == {<<"e">>, <<"'">>}

\* crate::endpoints::handle: Ok, the "unrecognized" error (the text
\* "unknown variant" followed by the name received), or another failure of
\* a recognized command
CoreOk == [ok |-> TRUE, recognized |-> TRUE, err |-> <<>>]
CoreUnrecognized(b) ==
  [ok |-> FALSE, recognized |-> FALSE,
   err |-> Concat(<<UnknownVariant, <<" ">>, b>>)]
CoreFailed(b) == [ok |-> FALSE, recognized |-> TRUE, err |-> b]
CoreResults ==
  {CoreOk} \cup {CoreUnrecognized(b) : b \in ErrBodies}
           \cup {CoreFailed(b) : b \in {x \in ErrBodies : ~Contains(x, UnknownVariant)}}
NoCore == [ok |-> FALSE, recognized |-> FALSE, err |-> <<>>]

\* App::run_invoke_handler: Result<bool, String>
AppHandled == [err |-> FALSE, handled |-> TRUE, msg |-> <<>>]
AppNotHandled == [err |-> FALSE, handled |-> FALSE, msg |-> <<>>]
AppErr(b) == [err |-> TRUE, handled |-> FALSE, msg |-> b]
AppResults == {AppHandled, AppNotHandled} \cup {AppErr(b) : b \in ErrBodies}

\* state of a file on disk
FileAbsent == [exists |-> FALSE, readable |-> FALSE, contents |-> <<>>]
FileUnreadable == [exists |-> TRUE, readable |-> FALSE, contents |-> <<>>]
FileWith(c) == [exists |-> TRUE, readable |-> TRUE, contents |-> c]

Files == {FileAbsent, FileUnreadable}

\* the states index.tauri.html can be in
EntryFiles == Files \cup {FileWith(DevDocument), FileWith(BundledDocument)}

\* ------------------------------------------------------------------ state
VARIABLES
  mode,                    \* cfg(dev) / cfg(embedded_server) / cfg(no_server)
  updater_feature,         \* cfg(feature = "updater")
  config,                  \* tauri_api::config::get()
  splashscreen_html,       \* application.splashscreen_html()
  tauri_dir,               \* the TAURI_DIR environment variable
  bound_ports,             \* ports bound on the host
  entry_file,              \* state of <dev_path>/index.tauri.html on disk
  pc,                      \* position of the main thread in run
  main_content,            \* run: main_content
  server_url,              \* run: server_url
  setup_content_res,       \* outcome of setup_content
  build_webview_res,       \* outcome of build_webview
  build_attempts,          \* calls of build_webview
  windows,                 \* windows created by builder().build()
  displayed,               \* content the window displays
  bootstrap,               \* [path, read, dispatched] of the tauri.js injection
  has_splashscreen,        \* closure capture
  initialized_splashscreen,\* closure capture
  content_clone,           \* closure capture
  server_thread,           \* thread spawned by spawn_server
  updater_thread,          \* thread spawned by spawn_updater
  loop_started,            \* webview.run() entered
  last,                    \* what the latest callback invocation did
  n_msgs,                  \* callback invocations so far
  setup_log,               \* sources passed to application.run_setup
  n_initialized,           \* {"cmd":"__initialized"} messages so far
  n_unhandled,             \* chain messages handled by neither handler
  n_diag,                  \* console.error scripts handed to webview.eval
  url_host, url_port, url_out, \* check_server_url: inputs and result
  port_result,             \* (port, valid) returned by setup_port, <<>> before
  calls,                   \* calls of setup_content, spawn_server, spawn_updater
  bind_log,                \* tiny_http::Server::http calls of the server thread
  served                   \* requests taken by the server thread, in order

env_vars == <<mode, updater_feature, config, splashscreen_html, tauri_dir, bound_ports,
              entry_file>>
run_vars == <<pc, main_content, server_url, setup_content_res, build_webview_res,
              build_attempts, loop_started>>
window_vars == <<windows, displayed, bootstrap>>
closure_vars == <<has_splashscreen, initialized_splashscreen, content_clone>>
thread_vars == <<server_thread, updater_thread>>
msg_vars == <<last, n_msgs, setup_log, n_initialized, n_unhandled, n_diag>>
url_vars == <<url_host, url_port, url_out>>
hist_vars == <<port_result, calls>>
srv_vars == <<bind_log, served>>
vars == <<env_vars, run_vars, window_vars, closure_vars, thread_vars, msg_vars, url_vars,
          hist_vars, srv_vars>>

NoLast ==
  [arg |-> <<>>, branch |-> "none", core_called |-> FALSE, core |-> NoCore,
   app_called |-> FALSE, app |-> AppNotHandled, scripts |-> <<>>,
   source |-> "none", result |-> "none"]

NoCalls == [setup_content |-> 0, spawn_server |-> 0, spawn_updater |-> 0]

NoBootstrap == [path |-> <<>>, read |-> "none", dispatched |-> <<>>]

DefaultConfig ==
  [ok |-> TRUE, dev_path |-> DevUrlPath,
   host |-> <<"l", "o", "c", "a", "l", "h", "o", "s", "t">>, port |-> RandomPort]

Configs ==
  [ok : BOOLEAN, dev_path : DevPaths, host : Hosts, port : PortPolicies]

\* the fields a build mode does not read are left at their defaults
ConfigFor(m) ==
  {c \in Configs :
     /\ m # "dev" => c.dev_path = DefaultConfig.dev_path
     /\ m # "embedded_server" => c.host = DefaultConfig.host /\ c.port = DefaultConfig.port}

InitProgram ==
  /\ pc = "setup_content"
  /\ main_content = NoContent
  /\ server_url = <<>>
  /\ setup_content_res = "none"
  /\ build_webview_res = "none"
  /\ build_attempts = 0
  /\ loop_started = FALSE
  /\ windows = 0
  /\ displayed = NoContent
  /\ bootstrap = NoBootstrap
  /\ has_splashscreen = FALSE
  /\ initialized_splashscreen = FALSE
  /\ content_clone = NoContent
  /\ server_thread = "none"
  /\ updater_thread = "none"
  /\ last = NoLast
  /\ n_msgs = 0
  /\ setup_log = <<>>
  /\ n_initialized = 0
  /\ n_unhandled = 0
  /\ n_diag = 0
  /\ port_result = <<>>
  /\ calls = NoCalls
  /\ bind_log = <<>>
  /\ served = <<>>

UrlIdle == url_host = <<>> /\ url_port = U32(0, 0) /\ url_out = <<>>

Init ==
  /\ mode \in Modes
  /\ updater_feature \in BOOLEAN
  /\ config \in ConfigFor(mode)
  /\ splashscreen_html \in {NoContent, Html(SplashDocument)}
  /\ tauri_dir \in (IF splashscreen_html.kind = "None" THEN {TauriDirUnset} ELSE TauriDirs)
  /\ bound_ports \in (IF mode = "embedded_server" THEN SUBSET PortUniverse ELSE {{}})
  /\ entry_file \in (IF mode = "dev" /\ ~StartsWith(config.dev_path, Http)
                     THEN EntryFiles ELSE {FileAbsent})
  /\ InitProgram
  /\ UrlIdle

\* ---------------------------------------------------------------- actions

\* line 20: setup_content of the build mode, for one state of the environment
setup_content(m, cfg, file, bound, probe) ==
  CASE m = "dev" -> setup_content_dev(cfg, file)
    [] m = "embedded_server" -> setup_content_embedded(cfg, bound, probe)
    [] m = "no_server" -> setup_content_no_server

\* run, lines 20-30
SetupContent ==
  /\ pc = "setup_content"
  /\ \E probe \in get_available_port(bound_ports) :
       LET r == setup_content(mode, config, entry_file, bound_ports, probe)
       IN /\ setup_content_res' = r.res
          /\ port_result' = IF mode = "embedded_server" /\ config.ok
                            THEN setup_port(config.port, bound_ports, probe) ELSE <<>>
          /\ calls' = [calls EXCEPT !.setup_content = @ + 1]
          /\ main_content' = r.content
          /\ server_url' = IF mode = "embedded_server" /\ r.res = "Ok"
                           THEN server_url_of(r.content) ELSE <<>>
          /\ pc' = after_setup_content(r.res)
  /\ UNCHANGED <<env_vars, build_webview_res, build_attempts, loop_started,
                 window_vars, closure_vars, thread_vars, msg_vars, url_vars, srv_vars>>

\* lines 184-274: outcome of build_webview, for one state of the environment:
\* whether builder().build() succeeds and the state of the bootstrap file
build_webview(cfg, content, splashscreen_content, env_var, build_ok, file) ==
  LET splash == splashscreen_content.kind # "None"
      path == bootstrap_script_path(env_var)
      built == cfg.ok /\ build_ok
      read == IF built /\ splash
              THEN (IF file.exists /\ file.readable THEN "Ok" ELSE "Err")
              ELSE "none"
  IN [res |-> IF built /\ read # "Err" THEN "Ok" ELSE "Err",
      built |-> built,
      has_splashscreen |-> splash,
      content |-> initial_content(content, splashscreen_content),
      bootstrap |-> [path |-> IF read = "none" THEN <<>> ELSE path,
                     read |-> read,
                     dispatched |-> IF read = "Ok" THEN <<file.contents>> ELSE <<>>]]

\* run, lines 33-46
BuildWebview ==
  /\ pc = "build_webview"
  /\ \E build_ok \in BOOLEAN, file \in Files \cup {FileWith(BootstrapScript)} :
       LET b == build_webview(config, main_content, splashscreen_html, tauri_dir,
                              build_ok, file)
       IN /\ build_webview_res' = b.res
          /\ build_attempts' = build_attempts + 1
          /\ windows' = IF b.built THEN windows + 1 ELSE windows
          \* a WebView that is not returned is dropped
          /\ displayed' = IF b.res = "Ok" THEN b.content ELSE NoContent
          /\ bootstrap' = b.bootstrap
          /\ has_splashscreen' = (b.built /\ b.has_splashscreen)
          /\ initialized_splashscreen' = FALSE
          /\ content_clone' = IF b.built THEN main_content ELSE NoContent
          /\ pc' = after_build_webview(b.res, mode, updater_feature)
  /\ UNCHANGED <<env_vars, main_content, server_url, setup_content_res, loop_started,
                 thread_vars, msg_vars, url_vars, hist_vars, srv_vars>>

\* run, line 50; spawn_server, lines 154-171: the thread is started and Ok returned
SpawnServer ==
  /\ pc = "spawn_server"
  /\ server_thread' = "spawned"
  /\ calls' = [calls EXCEPT !.spawn_server = @ + 1]
  /\ pc' = after_spawn_server(updater_feature)
  /\ UNCHANGED <<env_vars, main_content, server_url, setup_content_res,
                 build_webview_res, build_attempts, loop_started, window_vars,
                 closure_vars, updater_thread, msg_vars, url_vars, port_result,
                 srv_vars>>

\* run, line 54; spawn_updater, lines 175-181
SpawnUpdater ==
  /\ pc = "spawn_updater"
  /\ updater_thread' = "spawned"
  /\ calls' = [calls EXCEPT !.spawn_updater = @ + 1]
  /\ pc' = "webview_run"
  /\ UNCHANGED <<env_vars, main_content, server_url, setup_content_res,
                 build_webview_res, build_attempts, loop_started, window_vars,
                 closure_vars, server_thread, msg_vars, url_vars, port_result,
                 srv_vars>>

\* run, line 57: the event loop is entered
WebviewRun ==
  /\ pc = "webview_run"
  /\ loop_started' = TRUE
  /\ pc' = "running"
  /\ UNCHANGED <<env_vars, main_content, server_url, setup_content_res,
                 build_webview_res, build_attempts, window_vars, closure_vars,
                 thread_vars, msg_vars, url_vars, hist_vars, srv_vars>>

\* line 57: an Err returned by the callback ends webview.run() with that Err
after_callback(result) == IF result = "Err" THEN "failed" ELSE "running"

\* mutant: the core handler is never called
calls_core_never(branch) == FALSE

\* mutant: the reserved payloads are not intercepted before the core handler
calls_core_always(branch) == TRUE

\* line 228: the core handler is called on every message of the chain
calls_core(branch) == branch = "chain"

\* lines 211-253: one invocation of the callback
invoke_handler(arg, core_result, app_result, eval_ok) ==
  LET branch == IF arg = InitializedMsg THEN "initialized"
                ELSE IF arg = CloseSplashscreenMsg THEN "closeSplashscreen"
                ELSE "chain"
      core_called == calls_core(branch)
      core == IF core_called THEN core_result ELSE NoCore
      core_failed == core_called /\ ~core.ok
      app_called == core_failed /\ consults_application(core.err)
      app == IF app_called THEN app_result ELSE AppNotHandled
      herr == IF core_failed THEN handler_error(core.err, app) ELSE None
      scripts == IF branch = "closeSplashscreen" THEN <<navigation_script(content_clone)>>
                 ELSE IF herr.some THEN <<get_api_error_message(arg, herr.msg)>>
                 ELSE <<>>
      source == IF branch = "initialized"
                THEN setup_source(has_splashscreen, initialized_splashscreen)
                ELSE "none"
  IN [arg |-> arg, branch |-> branch, core_called |-> core_called, core |-> core,
      app_called |-> app_called, app |-> app, scripts |-> scripts, source |-> source,
      result |-> callback_result(scripts # <<>>, eval_ok)]

\* the message is handled by neither handler
Unhandled(r) ==
  /\ r.branch = "chain"
  /\ ~r.core.ok
  /\ ~(r.app_called /\ ~r.app.err /\ r.app.handled)

IsDiagnostic(script) == StartsWith(script, ConsoleErrorPrefix)

\* the results the environment can give one invocation: only the handlers
\* and the evaluation the invocation reaches are drawn
CoreResultsFor(arg) ==
  IF calls_core(IF arg \in {InitializedMsg, CloseSplashscreenMsg} THEN "reserved" ELSE "chain")
  THEN CoreResults ELSE {NoCore}
AppResultsFor(core_result) ==
  IF core_result # NoCore /\ ~core_result.ok /\ consults_application(core_result.err)
  THEN AppResults ELSE {AppNotHandled}
EvalResultsFor(arg, core_result, app_result) ==
  IF invoke_handler(arg, core_result, app_result, TRUE).scripts # <<>>
  THEN BOOLEAN ELSE {TRUE}

\* the webview delivers one of the messages `args` to the callback
Deliver(args, limit) ==
  /\ pc = "running"
  /\ n_msgs < limit
  /\ \E arg \in args :
     \E core_result \in CoreResultsFor(arg) :
     \E app_result \in AppResultsFor(core_result) :
     \E eval_ok \in EvalResultsFor(arg, core_result, app_result) :
       LET r == invoke_handler(arg, core_result, app_result, eval_ok)
       IN /\ last' = r
          /\ n_msgs' = n_msgs + 1
          /\ initialized_splashscreen' =
               IF r.branch = "initialized"
               THEN mark_initialized(has_splashscreen, initialized_splashscreen)
               ELSE initialized_splashscreen
          /\ setup_log' = IF r.source = "none" THEN setup_log
                          ELSE Append(setup_log, r.source)
          /\ n_initialized' = n_initialized + (IF r.branch = "initialized" THEN 1 ELSE 0)
          /\ n_unhandled' = n_unhandled + (IF Unhandled(r) THEN 1 ELSE 0)
          /\ n_diag' = n_diag + Cardinality({i \in 1..Len(r.scripts) :
                                              IsDiagnostic(r.scripts[i])})
          \* closeSplashscreen navigates the window in place
          /\ displayed' = IF r.branch = "closeSplashscreen" /\ r.result = "Ok"
                          THEN content_clone ELSE displayed
          /\ pc' = after_callback(r.result)
  /\ UNCHANGED <<env_vars, main_content, server_url, setup_content_res,
                 build_webview_res, build_attempts, loop_started, windows, bootstrap,
                 has_splashscreen, content_clone, thread_vars, url_vars, hist_vars, srv_vars>>

InvokeHandler == Deliver(Args, MaxMsgs)

\* the user closes the window: webview.run() returns Ok
WindowClosed ==
  /\ pc = "running"
  /\ pc' = "exited"
  /\ UNCHANGED <<env_vars, main_content, server_url, setup_content_res,
                 build_webview_res, build_attempts, loop_started, window_vars,
                 closure_vars, thread_vars, msg_vars, url_vars, hist_vars, srv_vars>>

\* ------------------------------------------------------- specifications
\* startup: run from its first line until the event loop is running
Next ==
  \/ SetupContent
  \/ BuildWebview
  \/ SpawnServer
  \/ SpawnUpdater
  \/ WebviewRun
  \/ WindowClosed

Spec == Init /\ [][Next]_vars

\* the session: the state in which webview.run() starts delivering messages,
\* computed by the startup operators for the configurations of DispatchModes
DispatchModes == {"dev", "no_server"}

InitDispatch ==
  /\ mode \in DispatchModes
  /\ updater_feature = FALSE
  /\ config = DefaultConfig
  /\ splashscreen_html \in {NoContent, Html(SplashDocument)}
  /\ tauri_dir = TauriDirUnset
  /\ bound_ports = {}
  /\ entry_file = FileAbsent
  /\ port_result = <<>>
  /\ calls = [NoCalls EXCEPT !.setup_content = 1]
  /\ bind_log = <<>>
  /\ served = <<>>
  /\ LET r == setup_content(mode, config, entry_file, bound_ports,
                            [some |-> FALSE, port |-> 0])
         b == build_webview(config, r.content, splashscreen_html, tauri_dir, TRUE,
                            FileWith(BootstrapScript))
     IN /\ pc = "running"
        /\ main_content = r.content
        /\ server_url = <<>>
        /\ setup_content_res = r.res
        /\ build_webview_res = b.res
        /\ build_attempts = 1
        /\ loop_started = TRUE
        /\ windows = 1
        /\ displayed = b.content
        /\ bootstrap = b.bootstrap
        /\ has_splashscreen = b.has_splashscreen
        /\ initialized_splashscreen = FALSE
        /\ content_clone = r.content
  /\ server_thread = "none"
  /\ updater_thread = "none"
  /\ last = NoLast
  /\ n_msgs = 0
  /\ setup_log = <<>>
  /\ n_initialized = 0
  /\ n_unhandled = 0
  /\ n_diag = 0
  /\ UrlIdle

NextDispatch ==
  \/ InvokeHandler
  \/ WindowClosed

SpecDispatch == InitDispatch /\ [][NextDispatch]_vars

\* check_server_url (lines 360-374): setup_server_url applied to the decimal
\* text of any u32, for the configured host
UrlHosts ==
  {<<>>,
   <<"l", "o", "c", "a", "l", "h", "o", "s", "t">>,
   <<"1", "2", "7", ".", "0", ".", "0", ".", "1">>,
   <<"h", "t", "t", "p", ":", "/", "/", "l", "o", "c", "a", "l", "h", "o", "s", "t">>,
   <<"h", "t", "t", "p", "s", ":", "/", "/", "l", "o", "c", "a", "l", "h", "o", "s", "t">>,
   <<"h", "t", "t", "p", "b", "i", "n", ".", "o", "r", "g">>}

UrlPorts ==
  {U32(0, 0), U32(0, 1), U32(0, 9), U32(0, 10), U32(0, 80), U32(0, 8000),
   U32(0, 65535), U32(1, 0), U32(15258, 51712), U32(32768, 0),
   U32(65535, 65534), U32(65535, 65535)}

InitUrl ==
  /\ mode = "embedded_server"
  /\ updater_feature = FALSE
  /\ config = DefaultConfig
  /\ splashscreen_html = NoContent
  /\ tauri_dir = TauriDirUnset
  /\ bound_ports = {}
  /\ entry_file = FileAbsent
  /\ InitProgram
  /\ url_host \in UrlHosts
  /\ url_port \in UrlPorts
  /\ url_out = <<>>

CheckServerUrl ==
  /\ url_out = <<>>
  /\ url_out' = setup_server_url(url_host, to_string(url_port))
  /\ UNCHANGED <<env_vars, run_vars, window_vars, closure_vars, thread_vars, msg_vars,
                 url_host, url_port, hist_vars, srv_vars>>

NextUrl == CheckServerUrl

SpecUrl == InitUrl /\ [][NextUrl]_vars

\* ================================================================ claims
\* the console.error script for a command text and an error text, both as
\* they appear inside the single-quoted literal
Diagnostic(cmd_text, err_text) ==
  Concat(<<ConsoleErrorPrefix, cmd_text, ConsoleErrorSep, err_text, ConsoleErrorSuffix>>)

\* every single quote preceded by a backslash
Escaped(t) == Replace(t, Quote, EscapedQuote)

NumDiagnostics(scripts) ==
  Cardinality({i \in 1..Len(scripts) : StartsWith(scripts[i], ConsoleErrorPrefix)})

HandledSuccessfully(r) ==
  r.core.ok \/ (r.app_called /\ ~r.app.err /\ r.app.handled)

CoreUnrecognizedCase == last.branch = "chain" /\ ~last.core.ok /\ ~last.core.recognized
CoreFailedCase == last.branch = "chain" /\ ~last.core.ok /\ last.core.recognized

C2_SurfacedErrorChosenByApp ==
  CoreUnrecognizedCase =>
     /\ last.app_called
     /\ last.app.err =>
          last.scripts = <<Diagnostic(Escaped(last.arg), Escaped(last.app.msg))>>
     /\ (~last.app.err /\ ~last.app.handled) =>
          last.scripts = <<Diagnostic(Escaped(last.arg), last.core.err)>>
     /\ (~last.app.err /\ last.app.handled) => last.scripts = <<>>

C2_Witness ==
  /\ CoreUnrecognizedCase
  /\ last.app.err
  /\ last.app.msg # last.core.err
  /\ last.scripts # <<>>

\* C3: a message of the fallback chain gets exactly one console.error
\* script when neither handler handled it successfully and none when one
\* did; reserved messages get none, so over the session the diagnostics
\* count equals the unhandled messages count.
C3_DiagnosticIffUnhandled ==
  /\ last.branch = "chain" =>
       NumDiagnostics(last.scripts) = (IF HandledSuccessfully(last) THEN 0 ELSE 1)
  /\ last.branch \in {"initialized", "closeSplashscreen"} =>
       NumDiagnostics(last.scripts) = 0
  /\ n_diag = n_unhandled

C3_Witness ==
  /\ n_msgs = 3
  /\ n_diag = 1
  /\ last.branch = "chain"
  /\ last.app_called
  /\ HandledSuccessfully(last)

\* C4: whatever the handlers and the script evaluation do, the callback
\* returns Ok and the event loop keeps running (or is closed by the user).
C4_CallbackNeverFails ==
  last.result # "Err" /\ pc \in {"running", "exited"}

C6_SplashNotifiedOnceThenWindow ==
  /\ Len(setup_log) = n_initialized
  /\ \A i \in 1..Len(setup_log) :
       setup_log[i] = IF has_splashscreen /\ i = 1 THEN "splashscreen" ELSE "window-1"
  /\ initialized_splashscreen = (has_splashscreen /\ n_initialized > 0)

C6_Witness ==
  /\ has_splashscreen
  /\ n_msgs = 3
  /\ setup_log = <<"splashscreen", "window-1">>
  /\ last.branch = "initialized"

\* C7: a closeSplashscreen message evaluates exactly one script, the
\* navigation to the main content resolved at startup, calls neither handler
\* and creates no window.
C7_CloseSplashNavigatesInPlace ==
  /\ windows = 1
  /\ content_clone = main_content
  /\ main_content = (IF mode = "dev" THEN Url(DevUrlPath) ELSE Html(BundledDocument))
  /\ last.branch = "closeSplashscreen" =>
       /\ last.scripts =
            <<Concat(<<LocationHrefPrefix, main_content.text, LocationHrefSuffix>>)>>
       /\ ~last.core_called
       /\ ~last.app_called

C7_Witness ==
  /\ last.branch = "closeSplashscreen"
  /\ has_splashscreen
  /\ n_msgs = 2
  /\ displayed = main_content

\* the text between console.error(' and ') of a diagnostic script
LiteralBody(script) ==
  SubSeq(script, Len(ConsoleErrorPrefix) + 1, Len(script) - Len(ConsoleErrorSuffix))

\* no single quote of the text ends the single-quoted literal
RECURSIVE QuotesEscaped(_)
QuotesEscaped(t) ==
  IF t = <<>> THEN TRUE
  ELSE IF Head(t) = "\\" THEN Len(t) >= 2 /\ QuotesEscaped(Tail(Tail(t)))
  ELSE IF Head(t) = Quote THEN FALSE
  ELSE QuotesEscaped(Tail(t))

\* the error text the chain surfaces, before any escaping
SurfacedErrorText(r) == IF r.app_called /\ r.app.err THEN r.app.msg ELSE r.core.err

\* C8: every diagnostic holds the command text and the surfaced error text
\* (core "unrecognized" error, other core error, or application error) with
\* every single quote escaped, so the literal is not terminated early.
C8_DiagnosticQuotesEscaped ==
  (last.branch = "chain" /\ last.scripts # <<>>) =>
     /\ last.scripts =
          <<Diagnostic(Escaped(last.arg), Escaped(SurfacedErrorText(last)))>>
     /\ QuotesEscaped(LiteralBody(last.scripts[1]))

\* C9: after a failed content resolution or a failed build_webview (window
\* construction, or the bootstrap script of a splash screen), no server
\* thread, no updater and no event loop; after a failed resolution no
\* build_webview either.
C9_FatalStartupStartsNothing ==
  /\ (setup_content_res \in {"Err", "panic"} \/ build_webview_res = "Err") =>
       (server_thread = "none" /\ updater_thread = "none" /\ ~loop_started)
  /\ setup_content_res \in {"Err", "panic"} => (build_attempts = 0 /\ windows = 0)

C9_Witness ==
  /\ mode = "embedded_server"
  /\ updater_feature
  /\ setup_content_res = "Ok"
  /\ bootstrap.read = "Err"
  /\ build_webview_res = "Err"
  /\ pc = "failed"

\* C10: for every host and every u32 port, the URL of setup_server_url
\* contains the port's decimal text and starts with http:// or https://.
C10_ServerUrlHasPortAndScheme ==
  url_out # <<>> =>
     /\ Contains(url_out, to_string(url_port))
     /\ StartsWith(url_out, HttpScheme) \/ StartsWith(url_out, HttpsScheme)

\* ---------------------------------------------------------------- startup
LocalDirectoryCase ==
  /\ mode = "dev"
  /\ config.ok
  /\ ~StartsWith(config.dev_path, Http)
  /\ setup_content_res # "none"

\* C11: in embedded-server mode resolution yields the local-server URL
\* exactly when setup_port reports the port valid; a fixed port n is reported
\* as (n, free) with no other port put in its place, a random policy with no
\* free port as ("0", false), and every invalid result is fatal.
C11_UrlIffPortValid ==
  (mode = "embedded_server" /\ port_result # <<>>) =>
     /\ (setup_content_res = "Ok") <=> port_result[2]
     /\ port_result[2] =>
          /\ main_content.kind = "Url"
          /\ main_content.text = server_url
          /\ Contains(server_url, <<":">> \o port_result[1])
     /\ ~port_result[2] =>
          (setup_content_res = "panic" /\ main_content = NoContent /\ pc = "panicked")
     /\ ~config.port.random =>
          port_result = <<to_string(U32Of(config.port.value)),
                          config.port.value \notin bound_ports>>
     /\ (config.port.random /\ RandomRange \subseteq bound_ports) =>
          port_result = <<<<"0">>, FALSE>>

C11_Witness ==
  /\ mode = "embedded_server"
  /\ ~config.port.random
  /\ config.port.value \in bound_ports
  /\ port_result = <<<<"8", "0">>, FALSE>>
  /\ pc = "panicked"

\* C12 as claimed: with a local directory as source path, an absent entry
\* document is fatal and no window is created; a present one yields the
\* inline document with the file's exact contents.
C12_PresentEntryYieldsDocument ==
  LocalDirectoryCase =>
     /\ ~entry_file.exists => (setup_content_res = "panic" /\ windows = 0)
     /\ entry_file.exists =>
          (setup_content_res = "Ok" /\ main_content = Html(entry_file.contents))

\* C12 as amended: an absent entry document is fatal (panic), a present one
\* that cannot be read is an error, and in both cases no window is created;
\* a present, readable one yields the inline document with the file's exact
\* contents.
C12_ReadableEntryYieldsDocument ==
  LocalDirectoryCase =>
     /\ ~entry_file.exists =>
          (setup_content_res = "panic" /\ windows = 0 /\ build_attempts = 0)
     /\ (entry_file.exists /\ ~entry_file.readable) =>
          (setup_content_res = "Err" /\ windows = 0 /\ build_attempts = 0)
     /\ (entry_file.exists /\ entry_file.readable) =>
          (setup_content_res = "Ok" /\ main_content = Html(entry_file.contents))

C12_Witness ==
  /\ LocalDirectoryCase
  /\ entry_file = FileWith(DevDocument)
  /\ main_content = Html(DevDocument)
  /\ windows = 1

\* C15: a window that is built shows the splash content first when there is
\* one and the main content otherwise; the bootstrap script is scheduled
\* once with a splash screen and is neither read nor scheduled without one.
C15_InitialContentAndBootstrap ==
  /\ build_webview_res = "Ok" =>
       /\ displayed = (IF splashscreen_html.kind # "None" THEN splashscreen_html
                       ELSE main_content)
       /\ Len(bootstrap.dispatched) = (IF splashscreen_html.kind # "None" THEN 1 ELSE 0)
  /\ splashscreen_html.kind = "None" => bootstrap = NoBootstrap
  /\ Len(bootstrap.dispatched) <= 1

C15_Witness ==
  /\ splashscreen_html.kind = "Html"
  /\ main_content.kind = "Url"
  /\ displayed = splashscreen_html
  /\ bootstrap.dispatched = <<BootstrapScript>>
  /\ loop_started

\* C18: content is resolved once and before build_webview; each thread is
\* started at most once, only after the window is built, and by the time
\* the event loop runs every thread of the build has been started.
C18_StartupOrder ==
  /\ calls.setup_content <= 1 /\ build_attempts <= 1
  /\ calls.spawn_server <= 1 /\ calls.spawn_updater <= 1
  /\ build_attempts > 0 => (calls.setup_content = 1 /\ setup_content_res = "Ok")
  /\ (calls.spawn_server > 0 \/ calls.spawn_updater > 0) =>
       (windows = 1 /\ build_webview_res = "Ok")
  /\ loop_started =>
       /\ calls.setup_content = 1
       /\ windows = 1
       /\ calls.spawn_server = (IF mode = "embedded_server" THEN 1 ELSE 0)
       /\ calls.spawn_updater = (IF updater_feature THEN 1 ELSE 0)

C18_Witness ==
  /\ mode = "embedded_server"
  /\ updater_feature
  /\ loop_started
  /\ calls = [setup_content |-> 1, spawn_server |-> 1, spawn_updater |-> 1]

\* C19: the bootstrap script is read from tauri.js inside the runtime
\* directory (TAURI_DIR, or ../dist when unset).
C19_BootstrapReadFromTauriDir ==
  bootstrap.read # "none" =>
     bootstrap.path = Concat(<<get_or(tauri_dir, DefaultTauriDir), <<Slash>>,
                               <<"t", "a", "u", "r", "i", ".", "j", "s">>>>)

\* ------------------------------------------------------------ splash states
Reserved == {InitializedMsg, CloseSplashscreenMsg}

\* C13 as claimed: without a splash screen every inbound message, whatever
\* its payload, goes to the fallback chain.
C13_NoSplashEveryMessageToChain ==
  (~has_splashscreen /\ last.branch # "none") =>
     (last.branch = "chain" /\ last.core_called)

\* C13 as amended: without a splash screen the flag is never set and
\* __initialized only notifies "window-1"; every message other than the two
\* reserved payloads goes to the fallback chain (core handler first, the
\* application handler only after a core error); the two reserved payloads
\* are still intercepted and reach no handler.
C13_NoSplashNonReservedToChain ==
  ~has_splashscreen =>
     /\ ~initialized_splashscreen
     /\ last.source \in {"none", "window-1"}
     /\ (last.branch # "none" /\ last.arg \notin Reserved) =>
          /\ last.branch = "chain"
          /\ last.core_called
          /\ last.app_called => ~last.core.ok
     /\ (last.branch # "none" /\ last.arg \in Reserved) =>
          (~last.core_called /\ ~last.app_called)

C13_Witness ==
  /\ ~has_splashscreen
  /\ n_initialized >= 1
  /\ last.branch = "chain"
  /\ last.core_called
  /\ last.app_called

\* C14: with a splash screen the window shows the main content only after
\* the splash has been marked initialized, and "splashscreen" is never
\* notified while the window shows the main content.
C14_SplashStatesOnlyForward ==
  has_splashscreen =>
     /\ displayed = main_content => initialized_splashscreen
     /\ ~(displayed = main_content /\ last.source = "splashscreen")

\* ============================================================== threads
\* most requests the server thread takes in one run
MaxRequests == 2
\* messages delivered to the window while the threads run
MaxThreadMsgs == 1

\* str::replace(pattern, "")
RECURSIVE Remove(_, _)
Remove(t, pattern) ==
  IF t = <<>> THEN <<>>
  ELSE IF StartsWith(t, pattern) THEN Remove(SubSeq(t, Len(pattern) + 1, Len(t)), pattern)
  ELSE <<Head(t)>> \o Remove(Tail(t), pattern)

\* line 156: the address the listener is bound to
bind_address(url) == Remove(Remove(url, HttpScheme), HttpsScheme)

\* lines 159-163: the asset a request path is answered with
asset_url(url) == IF url = <<Slash>> THEN <<Slash>> \o IndexTauriHtml ELSE url

RequestPaths == {<<"/">>, <<"/", "a">>}

\* the port of the resolved server URL
ListenPort == CHOOSE p \in PortUniverse : to_string(U32Of(p)) = port_result[1]

\* the threads live as long as the process
ProcessAlive == pc \notin {"exited", "failed", "panicked"}

\* mutant: a panic of a spawned thread takes the process down
after_thread_panic_aborts(main_pc) == "panicked"

\* lines 155-157, 176-178: the panic of an .expect() inside a thread started
\* with spawn (never joined) ends that thread; the main thread stays where it is
after_thread_panic(main_pc) == main_pc

\* lines 156-157: Server::http(..).expect("Unable to spawn server")
server_after_bind(ok) == IF ok THEN "serving" ELSE "panicked"

\* lines 164-166: respond(..).expect("unable to setup response")
server_after_respond(ok) == IF ok THEN "serving" ELSE "panicked"

\* lines 177-178: spawn_relative_command(..).expect(..), then the closure ends
updater_after_spawn(ok) == IF ok THEN "done" ELSE "panicked"

\* server thread, lines 156-157
ServerBind ==
  /\ ProcessAlive
  /\ server_thread = "spawned"
  /\ \E ok \in (IF ListenPort \in bound_ports THEN {FALSE} ELSE BOOLEAN) :
       /\ bind_log' = Append(bind_log, [addr |-> bind_address(server_url),
                                        port_free |-> ListenPort \notin bound_ports,
                                        res |-> IF ok THEN "Ok" ELSE "Err"])
       /\ server_thread' = server_after_bind(ok)
       /\ pc' = IF ok THEN pc ELSE after_thread_panic(pc)
  /\ UNCHANGED <<env_vars, main_content, server_url, setup_content_res,
                 build_webview_res, build_attempts, loop_started, window_vars,
                 closure_vars, updater_thread, msg_vars, url_vars, hist_vars, served>>

\* server thread, lines 158-167: one turn of the incoming_requests loop
ServerServe ==
  /\ ProcessAlive
  /\ server_thread = "serving"
  /\ Len(served) < MaxRequests
  /\ \E url \in RequestPaths, ok \in BOOLEAN :
       /\ served' = Append(served, [url |-> url, asset |-> asset_url(url),
                                    responded |-> ok])
       /\ server_thread' = server_after_respond(ok)
       /\ pc' = IF ok THEN pc ELSE after_thread_panic(pc)
  /\ UNCHANGED <<env_vars, main_content, server_url, setup_content_res,
                 build_webview_res, build_attempts, loop_started, window_vars,
                 closure_vars, updater_thread, msg_vars, url_vars, hist_vars, bind_log>>

\* updater thread, lines 176-179
UpdaterRun ==
  /\ ProcessAlive
  /\ updater_thread = "spawned"
  /\ \E ok \in BOOLEAN :
       /\ updater_thread' = updater_after_spawn(ok)
       /\ pc' = IF ok THEN pc ELSE after_thread_panic(pc)
  /\ UNCHANGED <<env_vars, main_content, server_url, setup_content_res,
                 build_webview_res, build_attempts, loop_started, window_vars,
                 closure_vars, server_thread, msg_vars, url_vars, hist_vars, srv_vars>>

\* another process binds the port that setup_port found free, before the
\* server thread has bound it
ExternalBind ==
  /\ ProcessAlive
  /\ server_thread \in {"none", "spawned"}
  /\ ListenPort \notin bound_ports
  /\ bound_ports' = bound_ports \cup {ListenPort}
  /\ UNCHANGED <<mode, updater_feature, config, splashscreen_html, tauri_dir, entry_file,
                 run_vars, window_vars, closure_vars, thread_vars, msg_vars, url_vars,
                 hist_vars, srv_vars>>

ThreadArgs == {InitializedMsg, CloseSplashscreenMsg, <<>>}

\* the window delivers a message while the threads run
ThreadsInvokeHandler == Deliver(ThreadArgs, MaxThreadMsgs)

\* the state in which run reaches spawn_server (line 50), computed by the
\* startup operators, for the embedded-server build with the updater
InitThreads ==
  /\ mode = "embedded_server"
  /\ updater_feature = TRUE
  /\ config \in {c \in ConfigFor(mode) : c.ok}
  /\ splashscreen_html = NoContent
  /\ tauri_dir = TauriDirUnset
  /\ bound_ports = {}
  /\ entry_file = FileAbsent
  /\ \E probe \in get_available_port(bound_ports) :
       LET r == setup_content(mode, config, entry_file, bound_ports, probe)
           b == build_webview(config, r.content, splashscreen_html, tauri_dir, TRUE,
                              FileAbsent)
       IN /\ pc = after_build_webview(b.res, mode, updater_feature)
          /\ main_content = r.content
          /\ server_url = server_url_of(r.content)
          /\ setup_content_res = r.res
          /\ port_result = setup_port(config.port, bound_ports, probe)
          /\ build_webview_res = b.res
          /\ build_attempts = 1
          /\ loop_started = FALSE
          /\ windows = 1
          /\ displayed = b.content
          /\ bootstrap = b.bootstrap
          /\ has_splashscreen = b.has_splashscreen
          /\ initialized_splashscreen = FALSE
          /\ content_clone = r.content
  /\ calls = [NoCalls EXCEPT !.setup_content = 1]
  /\ server_thread = "none"
  /\ updater_thread = "none"
  /\ bind_log = <<>>
  /\ served = <<>>
  /\ last = NoLast
  /\ n_msgs = 0
  /\ setup_log = <<>>
  /\ n_initialized = 0
  /\ n_unhandled = 0
  /\ n_diag = 0
  /\ UrlIdle

NextThreads ==
  \/ SpawnServer
  \/ SpawnUpdater
  \/ WebviewRun
  \/ ThreadsInvokeHandler
  \/ WindowClosed
  \/ ServerBind
  \/ ServerServe
  \/ UpdaterRun
  \/ ExternalBind

SpecThreads == InitThreads /\ [][NextThreads]_vars

\* ------------------------------------------------------- claims on threads
BindFailed == bind_log # <<>> /\ bind_log[Len(bind_log)].res = "Err"
BindSucceeded == \E i \in 1..Len(bind_log) : bind_log[i].res = "Ok"
ThreadPanicked == server_thread = "panicked" \/ updater_thread = "panicked"

\* C16: a failure inside a background thread stays inside that thread. After
\* a failed bind the server thread is terminated, the bind was attempted once
\* (no retry, no other port) and no request was served; a panic of either
\* thread never panics the main thread, which can still take its next step:
\* spawn the updater, start the window event loop, or handle the next message.
C16_ThreadFailureStaysInThread ==
  /\ BindFailed =>
       /\ server_thread = "panicked"
       /\ Len(bind_log) = 1
       /\ bind_log[1].addr = bind_address(server_url)
       /\ served = <<>>
  /\ ThreadPanicked =>
       /\ pc # "panicked"
       /\ pc = "spawn_updater" => ENABLED SpawnUpdater
       /\ pc = "webview_run" => ENABLED WebviewRun
       /\ (pc = "running" /\ n_msgs < MaxThreadMsgs) => ENABLED ThreadsInvokeHandler

\* both threads failed, the event loop started and a message was handled
C16_Witness ==
  /\ BindFailed
  /\ updater_thread = "panicked"
  /\ loop_started
  /\ pc = "running"
  /\ n_msgs >= 1
  /\ last.result = "Ok"

\* C17: after a successful bind the server thread keeps serving as long as the
\* process lives, whatever happened while responding to earlier requests, and
\* every request taken was answered with "/" mapped to "/index.tauri.html"
\* and every other path passed through.
C17_ServerKeepsServing ==
  /\ (BindSucceeded /\ ProcessAlive) => server_thread = "serving"
  /\ \A i \in 1..Len(served) :
       /\ served[i].responded
       /\ served[i].asset = IF served[i].url = <<"/">>
                            THEN <<"/">> \o IndexTauriHtml
                            ELSE served[i].url

\* C20: in embedded-server mode the listener is bound on the resolved address
\* before the window event loop starts, and the port the allocator reported
\* valid is still free when the server thread binds it.
C20_BoundBeforeLoopAndPortFree ==
  /\ (mode = "embedded_server" /\ loop_started) =>
       (BindSucceeded /\ bind_log[Len(bind_log)].addr = bind_address(server_url))
  /\ \A i \in 1..Len(bind_log) : bind_log[i].port_free

====
